---- MODULE Spec2Model ----
(***************************************************************************)
(* Model of the useAuth hook of src/components/EnvironmentCheck.tsx.       *)
(*                                                                         *)
(* The hook's React state (user, session, loading, error), the effect's    *)
(* closure flag and subscription, and every asynchronous operation in      *)
(* flight are the state.  One action is one synchronous run of the code    *)
(* between two awaits: a call runs the operation up to its first await, a  *)
(* settle step runs the continuation after the backend has answered.  The  *)
(* backend (the Supabase client and dbHelpers) is the environment: every   *)
(* awaited call may resolve, return an error result, or throw.             *)
(***************************************************************************)
EXTENDS Integers, Sequences, FiniteSets, TLC

VARIABLES user, session, loading, error, mounted, subscription, tasks, nextId, last, notified, envCheck

vars == <<user, session, loading, error, mounted, subscription, tasks, nextId, last, notified, envCheck>>

----------------------------------------------------------------------------
(* Bounds *)

\* Number of operation calls and session-change notifications in a behaviour.
MaxEvents == 2

----------------------------------------------------------------------------
(* Values *)

\* JavaScript null and undefined.
Null == [null |-> TRUE]

Undefined == [undefined |-> TRUE]

\* A JavaScript string held where null is also possible (messages, the error field).
Str(s) == [str |-> s]

UserIds == {"u1", "u2"}

Email == [u1 |-> "a@b.com", u2 |-> "c@d.com"]

\* The backend's base user identity (User of @supabase/supabase-js).
BackendUser(id) == [id |-> id, email |-> Email[id]]

Tokens == {"t1"}

\* Session of @supabase/supabase-js: an opaque token bundle with its user.
Sessions == {[user |-> BackendUser(id), access_token |-> t] : id \in UserIds, t \in Tokens}

\* AuthError objects the backend can report.
AuthErrors == {[message |-> Str("Invalid login credentials")], [message |-> Str("Auth service unavailable")]}

\* Rows of the users table for one id (UserProfile); optional fields may be absent.
ProfileRows(id) == {[id |-> id, full_name |-> "A B"], [id |-> id, full_name |-> "A C", district |-> "Gasabo"]}

\* Object spread { ...a, ...b }: the fields of b override those of a.
Spread(a, b) == [f \in (DOMAIN a) \cup (DOMAIN b) |-> IF f \in DOMAIN b THEN b[f] ELSE a[f]]

\* user.profile of an AuthUser: undefined when the optional field is absent.
ProfileOf(u) == IF "profile" \in DOMAIN u THEN u.profile ELSE Undefined

\* session?.user
SessionUser(s) == IF s = Null THEN Undefined ELSE s.user

----------------------------------------------------------------------------
(* Bookkeeping *)

\* One backend call issued by an operation.
Call(api, key) == [api |-> api, key |-> key]

\* An asynchronous function suspended at an await.
Task(id, kind, pc, authUser, data, calls) == [id |-> id, kind |-> kind, pc |-> pc, authUser |-> authUser, data |-> data, calls |-> calls]

\* The step just taken: which operation ran (op), whether it was called, moved
\* to its next await or settled (phase), the backend answer it consumed (resp),
\* how the call ended for its caller (outcome, err, value), and the backend
\* calls the operation has issued (calls).
Ev(op, phase, resp, outcome, err, value, calls) == [op |-> op, phase |-> phase, resp |-> resp, outcome |-> outcome, err |-> err, value |-> value, calls |-> calls]

InFlight(kind, pc) == {t \in tasks : t.kind = kind /\ t.pc = pc}

CanStart == mounted /\ nextId <= MaxEvents

----------------------------------------------------------------------------
(* EnvironmentCheck: the configuration banner *)

\* A JavaScript boolean held where other values are also possible.
Bool(b) == [bool |-> b]

UrlPlaceholder == Str("your_supabase_project_url_here")

KeyPlaceholder == Str("your_supabase_anon_key_here")

\* Values import.meta.env can hold for a variable: missing, empty, either
\* placeholder, blank, and real-looking strings.
EnvValues ==
  {Undefined, Str(""), UrlPlaceholder, KeyPlaceholder, Str(" "), Str("undefined"),
   Str("https://abc.supabase.co"), Str("eyJhbGciOiJIUzI1NiJ9.anon")}

\* JavaScript truthiness of the values above.
Truthy(v) == v \notin {Undefined, Null, Str(""), Bool(FALSE)}

\* a && b: the first operand if it is falsy, else the second.
JsAnd(a, b) == IF Truthy(a) THEN b ELSE a

\* a !== b
StrictNotEqual(a, b) == Bool(a # b)

IsConfiguredUrlOnly(supabaseUrl, supabaseAnonKey) ==
  JsAnd(supabaseUrl, StrictNotEqual(supabaseUrl, UrlPlaceholder))

\* const isConfigured = supabaseUrl && supabaseAnonKey && ... !== ... && ... !== ...
IsConfigured(supabaseUrl, supabaseAnonKey) ==
  JsAnd(JsAnd(JsAnd(supabaseUrl, supabaseAnonKey), StrictNotEqual(supabaseUrl, UrlPlaceholder)),
        StrictNotEqual(supabaseAnonKey, KeyPlaceholder))

\* What the component returns: null when configured, the banner otherwise.
EnvironmentCheck(supabaseUrl, supabaseAnonKey) ==
  IF Truthy(IsConfigured(supabaseUrl, supabaseAnonKey)) THEN "null" ELSE "banner"

Env(url, key, rendered) == [supabaseUrl |-> url, supabaseAnonKey |-> key, rendered |-> rendered]

\* One render of the component.
EnvironmentCheckRender ==
  /\ envCheck.rendered = "notRendered"
  /\ envCheck' = Env(envCheck.supabaseUrl, envCheck.supabaseAnonKey, EnvironmentCheck(envCheck.supabaseUrl, envCheck.supabaseAnonKey))
  /\ UNCHANGED <<user, session, loading, error, mounted, subscription, tasks, nextId, last, notified>>

----------------------------------------------------------------------------
(* useState initial values, before the effect has run *)

\* The most recent session-change notification the live handler has taken:
\* its event number, the session it carried, and how many there have been.
Notified(id, s, count) == [id |-> id, session |-> s, count |-> count]

InitHook ==
  /\ user = Null
  /\ session = Null
  /\ loading = TRUE
  /\ error = Null
  /\ mounted = FALSE
  /\ subscription = "none"
  /\ tasks = {}
  /\ nextId = 1
  /\ last = Ev("render", "settle", Null, "none", Null, Null, <<>>)
  /\ notified = Notified(0, Null, 0)

Init ==
  /\ InitHook
  /\ envCheck = Env(Str("https://abc.supabase.co"), Str("eyJhbGciOiJIUzI1NiJ9.anon"), "notRendered")

----------------------------------------------------------------------------
(* useEffect: mount, initial session fetch, subscription, cleanup *)

\* The effect body: mounted = true, getInitialSession() up to its await of
\* supabase.auth.getSession(), and the onAuthStateChange subscription.
Mount ==
  /\ UNCHANGED <<notified, envCheck>>
  /\ subscription = "none"
  /\ mounted' = TRUE
  /\ subscription' = "active"
  /\ tasks' = tasks \cup {Task(0, "getInitialSession", "getSession", Null, Null, <<Call("auth.getSession", Null)>>)}
  /\ last' = Ev("useEffect", "call", Null, "none", Null, Null, <<>>)
  /\ UNCHANGED <<user, session, loading, error, nextId>>

\* The effect's cleanup function.
Unmount ==
  /\ UNCHANGED <<notified, envCheck>>
  /\ subscription = "active"
  /\ mounted' = FALSE
  /\ subscription' = "unsubscribed"
  /\ last' = Ev("useEffect", "cleanup", Null, "none", Null, Null, <<>>)
  /\ UNCHANGED <<user, session, loading, error, tasks, nextId>>

LoadingKeptOnProfileLoad(l) == l

\* setLoading(true), the first statement of loadUserProfile.
LoadingOnProfileLoad(l) == TRUE

\* What supabase.auth.getSession() can answer.
GetSessionResponses ==
  {[how |-> "ok", session |-> s, error |-> Null] : s \in Sessions \cup {Null}}
    \cup {[how |-> h, session |-> Null, error |-> e] : h \in {"error", "throws"}, e \in AuthErrors}

\* getInitialSession after supabase.auth.getSession() has answered.
GetInitialSessionSettle(t, r) ==
  /\ UNCHANGED <<notified, envCheck>>
  /\ t \in InFlight("getInitialSession", "getSession")
  /\ r \in GetSessionResponses
  /\ UNCHANGED <<user, mounted, subscription, nextId>>
  /\ CASE r.how = "error" ->
            /\ error' = r.error.message
            /\ tasks' = tasks \ {t}
            /\ last' = Ev("getInitialSession", "settle", r, "resolved", Null, Null, t.calls)
            /\ UNCHANGED <<session, loading>>
       [] r.how = "throws" ->
            /\ IF mounted
                 THEN error' = Str("Failed to initialize authentication") /\ loading' = FALSE
                 ELSE UNCHANGED <<error, loading>>
            /\ tasks' = tasks \ {t}
            /\ last' = Ev("getInitialSession", "settle", r, "resolved", Null, Null, t.calls)
            /\ UNCHANGED session
       [] r.how = "ok" /\ ~mounted ->
            /\ tasks' = tasks \ {t}
            /\ last' = Ev("getInitialSession", "settle", r, "resolved", Null, Null, t.calls)
            /\ UNCHANGED <<session, loading, error>>
       [] r.how = "ok" /\ mounted /\ SessionUser(r.session) = Undefined ->
            /\ session' = r.session
            /\ loading' = FALSE
            /\ tasks' = tasks \ {t}
            /\ last' = Ev("getInitialSession", "settle", r, "resolved", Null, Null, t.calls)
            /\ UNCHANGED error
       [] r.how = "ok" /\ mounted /\ SessionUser(r.session) # Undefined ->
            \* loadUserProfile(session.user) up to its await
            /\ session' = r.session
            /\ loading' = LoadingOnProfileLoad(loading)
            /\ tasks' = (tasks \ {t}) \cup {Task(t.id, t.kind, "getUserById", r.session.user, Null, Append(t.calls, Call("users.select", r.session.user.id)))}
            /\ last' = Ev("getInitialSession", "step", r, "none", Null, Null, t.calls)
            /\ UNCHANGED error

\* What dbHelpers.getUserById(id) can answer: the row, or a thrown error.
GetUserByIdResponses(id) ==
  {[how |-> "ok", row |-> p] : p \in ProfileRows(id)} \cup {[how |-> "throws", row |-> Null]}

LoadedUserDroppedOnFailure(authUser, r) ==
  IF r.how = "ok" THEN Spread(authUser, [profile |-> r.row]) ELSE Null

LoadedUserNullProfile(authUser, r) == Spread(authUser, [profile |-> r.row])

\* The hook's user after loadUserProfile(authUser) has its answer.
LoadedUser(authUser, r) ==
  IF r.how = "ok" THEN Spread(authUser, [profile |-> r.row]) ELSE authUser

\* loadUserProfile after dbHelpers.getUserById has answered; it runs for the
\* initial fetch (task 0) and for a session-change notification alike.
LoadUserProfileSettle(t, r) ==
  /\ UNCHANGED <<notified, envCheck>>
  /\ t \in tasks
  /\ t.pc = "getUserById"
  /\ r \in GetUserByIdResponses(t.authUser.id)
  /\ user' = LoadedUser(t.authUser, r)
  /\ loading' = FALSE
  /\ tasks' = tasks \ {t}
  /\ last' = Ev("loadUserProfile", "settle", r, "resolved", Null, t.authUser, t.calls)
  /\ UNCHANGED <<session, error, mounted, subscription, nextId>>

HandlerAlwaysLive == TRUE

\* `if (mounted)` in the onAuthStateChange callback.
HandlerLive == mounted

\* The onAuthStateChange callback, up to its await of loadUserProfile.  The
\* callback exists once the effect has subscribed; a notification already
\* being dispatched when the cleanup unsubscribes can still invoke it.
AuthStateChange(s) ==
  /\ subscription # "none"
  /\ nextId <= MaxEvents
  /\ s \in Sessions \cup {Null}
  /\ nextId' = nextId + 1
  /\ UNCHANGED <<mounted, subscription, envCheck>>
  /\ IF ~HandlerLive
       THEN /\ last' = Ev("onAuthStateChange", "settle", Null, "none", Null, s, <<>>)
            /\ UNCHANGED <<user, session, loading, error, tasks, notified>>
       ELSE /\ session' = s
            /\ error' = Null
            /\ notified' = Notified(nextId, s, notified.count + 1)
            /\ IF SessionUser(s) # Undefined
                 THEN /\ loading' = LoadingOnProfileLoad(loading)
                      /\ tasks' = tasks \cup {Task(nextId, "onAuthStateChange", "getUserById", s.user, Null, <<Call("users.select", s.user.id)>>)}
                      /\ last' = Ev("onAuthStateChange", "call", Null, "none", Null, s, <<>>)
                      /\ UNCHANGED user
                 ELSE /\ user' = Null
                      /\ loading' = FALSE
                      /\ last' = Ev("onAuthStateChange", "settle", Null, "none", Null, s, <<>>)
                      /\ UNCHANGED tasks

----------------------------------------------------------------------------
(* Backend answers to the operations' awaited calls *)

\* { data, error } of an auth call, or an exception out of the await.  An
\* error result carries the empty data of the call (nodata).
AuthResponses(datas, nodata) ==
  {[how |-> "ok", data |-> d, error |-> Null] : d \in datas}
    \cup {[how |-> h, data |-> nodata, error |-> e] : h \in {"error", "throws"}, e \in AuthErrors}

NoAuthData == [user |-> Null, session |-> Null]

\* supabase.auth.signUp: the new user (no session until the email is
\* confirmed), or no user at all.
SignUpResponses ==
  AuthResponses({[user |-> BackendUser(id), session |-> Null] : id \in UserIds} \cup {NoAuthData}, NoAuthData)

\* supabase.auth.signInWithPassword: the user and a session of that user.
SignInResponses ==
  AuthResponses({[user |-> s.user, session |-> s] : s \in Sessions}, NoAuthData)

\* signOut, resetPasswordForEmail and updateUser carry no data the hook reads.
PlainAuthResponses == AuthResponses({Null}, Null)

\* Errors of the users table and of dbHelpers.
DbErrors == {[message |-> Str("permission denied for table users")]}

\* dbHelpers.createUser and the last_login update: their result is not read.
SideResponses ==
  {[how |-> "ok", data |-> Null, error |-> Null]}
    \cup {[how |-> h, data |-> Null, error |-> e] : h \in {"error", "throws"}, e \in DbErrors}

\* .update(...).eq('id', id).select().single(): the updated row, or an error.
UpdateResponses(id) ==
  {[how |-> "ok", data |-> row, error |-> Null] : row \in ProfileRows(id)}
    \cup {[how |-> h, data |-> Null, error |-> e] : h \in {"error", "throws"}, e \in DbErrors}

\* `if (error) throw error` after an await that may itself throw: control
\* reaches the catch block on an error result and on an exception alike.
ThrownOnlyWhenRaised(r) == r.how = "throws"

Thrown(r) == r.how # "ok"

\* authError.message, as recorded by setError in the catch blocks.
GenericMessage(e) == Str("Authentication failed")

ErrorMessage(e) == e.message

\* Replace a suspended task by its next suspension.
Resume(t, pc, data, call) == (tasks \ {t}) \cup {Task(t.id, t.kind, pc, t.authUser, data, Append(t.calls, call))}

----------------------------------------------------------------------------
(* signUp *)

SignUpCall ==
  /\ UNCHANGED <<notified, envCheck>>
  /\ CanStart
  /\ loading' = TRUE
  /\ error' = Null
  /\ tasks' = tasks \cup {Task(nextId, "signUp", "auth.signUp", Null, Null, <<Call("auth.signUp", Null)>>)}
  /\ nextId' = nextId + 1
  /\ last' = Ev("signUp", "call", Null, "none", Null, Null, <<>>)
  /\ UNCHANGED <<user, session, mounted, subscription>>

\* After supabase.auth.signUp has answered.
SignUpAuthSettle(t, r) ==
  /\ UNCHANGED <<notified, envCheck>>
  /\ t \in InFlight("signUp", "auth.signUp")
  /\ r \in SignUpResponses
  /\ UNCHANGED <<user, session, mounted, subscription, nextId>>
  /\ IF Thrown(r)
       THEN /\ error' = ErrorMessage(r.error)
            /\ loading' = FALSE
            /\ tasks' = tasks \ {t}
            /\ last' = Ev("signUp", "settle", r, "thrown", r.error, Null, t.calls)
       ELSE IF r.data.user # Null
         THEN /\ tasks' = Resume(t, "createUser", r.data, Call("users.insert", r.data.user.id))
              /\ last' = Ev("signUp", "step", r, "none", Null, Null, t.calls)
              /\ UNCHANGED <<loading, error>>
         ELSE /\ loading' = FALSE
              /\ tasks' = tasks \ {t}
              /\ last' = Ev("signUp", "settle", r, "resolved", Null, r.data, t.calls)
              /\ UNCHANGED error

\* The inner catch around dbHelpers.createUser logs and does not rethrow.
ProfileErrorRethrownWhenRaised(r) == r.how = "throws"

ProfileErrorRethrown(r) == FALSE

\* After dbHelpers.createUser has answered.
SignUpInsertSettle(t, r) ==
  /\ UNCHANGED <<notified, envCheck>>
  /\ t \in InFlight("signUp", "createUser")
  /\ r \in SideResponses
  /\ loading' = FALSE
  /\ tasks' = tasks \ {t}
  /\ UNCHANGED <<user, session, mounted, subscription, nextId>>
  /\ IF ProfileErrorRethrown(r)
       THEN /\ error' = ErrorMessage(r.error)
            /\ last' = Ev("signUp", "settle", r, "thrown", r.error, Null, t.calls)
       ELSE /\ last' = Ev("signUp", "settle", r, "resolved", Null, t.data, t.calls)
            /\ UNCHANGED error

----------------------------------------------------------------------------
(* signIn *)

SignInCallKeepsLoading ==
  /\ UNCHANGED <<notified, envCheck>>
  /\ CanStart
  /\ error' = Null
  /\ tasks' = tasks \cup {Task(nextId, "signIn", "auth.signInWithPassword", Null, Null, <<Call("auth.signInWithPassword", Null)>>)}
  /\ nextId' = nextId + 1
  /\ last' = Ev("signIn", "call", Null, "none", Null, Null, <<>>)
  /\ UNCHANGED <<user, session, loading, mounted, subscription>>

SignInCall ==
  /\ UNCHANGED <<notified, envCheck>>
  /\ CanStart
  /\ loading' = TRUE
  /\ error' = Null
  /\ tasks' = tasks \cup {Task(nextId, "signIn", "auth.signInWithPassword", Null, Null, <<Call("auth.signInWithPassword", Null)>>)}
  /\ nextId' = nextId + 1
  /\ last' = Ev("signIn", "call", Null, "none", Null, Null, <<>>)
  /\ UNCHANGED <<user, session, mounted, subscription>>

\* After supabase.auth.signInWithPassword has answered.
SignInAuthSettle(t, r) ==
  /\ UNCHANGED <<notified, envCheck>>
  /\ t \in InFlight("signIn", "auth.signInWithPassword")
  /\ r \in SignInResponses
  /\ UNCHANGED <<user, session, mounted, subscription, nextId>>
  /\ IF Thrown(r)
       THEN /\ error' = ErrorMessage(r.error)
            /\ loading' = FALSE
            /\ tasks' = tasks \ {t}
            /\ last' = Ev("signIn", "settle", r, "thrown", r.error, Null, t.calls)
       ELSE IF r.data.user # Null
         THEN /\ tasks' = Resume(t, "users.update", r.data, Call("users.update", r.data.user.id))
              /\ last' = Ev("signIn", "step", r, "none", Null, Null, t.calls)
              /\ UNCHANGED <<loading, error>>
         ELSE /\ loading' = FALSE
              /\ tasks' = tasks \ {t}
              /\ last' = Ev("signIn", "settle", r, "resolved", Null, r.data, t.calls)
              /\ UNCHANGED error

SignInLastLoginSettleSurfaces(t, r) ==
  /\ UNCHANGED <<notified, envCheck>>
  /\ t \in InFlight("signIn", "users.update")
  /\ r \in SideResponses
  /\ loading' = FALSE
  /\ tasks' = tasks \ {t}
  /\ UNCHANGED <<user, session, mounted, subscription, nextId>>
  /\ IF r.how = "throws"
       THEN /\ error' = ErrorMessage(r.error)
            /\ last' = Ev("signIn", "settle", r, "thrown", r.error, Null, t.calls)
       ELSE /\ last' = Ev("signIn", "settle", r, "resolved", Null, t.data, t.calls)
            /\ UNCHANGED error

SignInLastLoginSettleSetsSession(t, r) ==
  /\ UNCHANGED <<notified, envCheck>>
  /\ t \in InFlight("signIn", "users.update")
  /\ r \in SideResponses
  /\ loading' = FALSE
  /\ session' = t.data.session
  /\ tasks' = tasks \ {t}
  /\ last' = Ev("signIn", "settle", r, "resolved", Null, t.data, t.calls)
  /\ UNCHANGED <<user, error, mounted, subscription, nextId>>

\* After the last_login update has answered: its result is not read and an
\* exception is caught and logged.
SignInLastLoginSettle(t, r) ==
  /\ UNCHANGED <<notified, envCheck>>
  /\ t \in InFlight("signIn", "users.update")
  /\ r \in SideResponses
  /\ loading' = FALSE
  /\ tasks' = tasks \ {t}
  /\ last' = Ev("signIn", "settle", r, "resolved", Null, t.data, t.calls)
  /\ UNCHANGED <<user, session, error, mounted, subscription, nextId>>

----------------------------------------------------------------------------
(* signOut *)

SignOutCall ==
  /\ UNCHANGED <<notified, envCheck>>
  /\ CanStart
  /\ loading' = TRUE
  /\ error' = Null
  /\ tasks' = tasks \cup {Task(nextId, "signOut", "auth.signOut", Null, Null, <<Call("auth.signOut", Null)>>)}
  /\ nextId' = nextId + 1
  /\ last' = Ev("signOut", "call", Null, "none", Null, Null, <<>>)
  /\ UNCHANGED <<user, session, mounted, subscription>>

SignOutSettleKeepsSession(t, r) ==
  /\ UNCHANGED <<notified, envCheck>>
  /\ t \in InFlight("signOut", "auth.signOut")
  /\ r \in PlainAuthResponses
  /\ loading' = FALSE
  /\ tasks' = tasks \ {t}
  /\ UNCHANGED <<session, mounted, subscription, nextId>>
  /\ IF Thrown(r)
       THEN /\ error' = ErrorMessage(r.error)
            /\ last' = Ev("signOut", "settle", r, "thrown", r.error, Null, t.calls)
            /\ UNCHANGED user
       ELSE /\ user' = Null
            /\ last' = Ev("signOut", "settle", r, "resolved", Null, Null, t.calls)
            /\ UNCHANGED error

\* After supabase.auth.signOut has answered.
SignOutSettle(t, r) ==
  /\ UNCHANGED <<notified, envCheck>>
  /\ t \in InFlight("signOut", "auth.signOut")
  /\ r \in PlainAuthResponses
  /\ loading' = FALSE
  /\ tasks' = tasks \ {t}
  /\ UNCHANGED <<mounted, subscription, nextId>>
  /\ IF Thrown(r)
       THEN /\ error' = ErrorMessage(r.error)
            /\ last' = Ev("signOut", "settle", r, "thrown", r.error, Null, t.calls)
            /\ UNCHANGED <<user, session>>
       ELSE /\ user' = Null
            /\ session' = Null
            /\ last' = Ev("signOut", "settle", r, "resolved", Null, Null, t.calls)
            /\ UNCHANGED error

----------------------------------------------------------------------------
(* updateProfile *)

\* `if (!user) throw new Error('No user logged in')`
NoUserError == [message |-> Str("No user logged in")]

NoUserOrNoSession == user = Null \/ session = Null

NoUser == user = Null

\* The call: the guard, then the code up to the await of the update.  The
\* continuation uses the user of the render the function was created in.
UpdateProfileCall ==
  /\ UNCHANGED <<notified, envCheck>>
  /\ CanStart
  /\ nextId' = nextId + 1
  /\ UNCHANGED <<user, session, mounted, subscription>>
  /\ IF NoUser
       THEN /\ last' = Ev("updateProfile", "settle", Null, "thrown", NoUserError, Null, <<>>)
            /\ UNCHANGED <<loading, error, tasks>>
       ELSE /\ loading' = TRUE
            /\ error' = Null
            /\ tasks' = tasks \cup {Task(nextId, "updateProfile", "users.update", user, Null, <<Call("users.update", user.id)>>)}
            /\ last' = Ev("updateProfile", "call", Null, "none", Null, Null, <<>>)

MergedProfileReplaced(u, data) == data

\* profile: { ...user.profile, ...data }
MergedProfile(u, data) == Spread(IF ProfileOf(u) = Undefined THEN <<>> ELSE ProfileOf(u), data)

\* After the update has answered.
UpdateProfileSettle(t, r) ==
  /\ UNCHANGED <<notified, envCheck>>
  /\ t \in InFlight("updateProfile", "users.update")
  /\ r \in UpdateResponses(t.authUser.id)
  /\ loading' = FALSE
  /\ tasks' = tasks \ {t}
  /\ UNCHANGED <<session, mounted, subscription, nextId>>
  /\ IF Thrown(r)
       THEN /\ error' = Str("Failed to update profile")
            /\ last' = Ev("updateProfile", "settle", r, "thrown", r.error, Null, t.calls)
            /\ UNCHANGED user
       ELSE /\ user' = Spread(t.authUser, [profile |-> MergedProfile(t.authUser, r.data)])
            /\ last' = Ev("updateProfile", "settle", r, "resolved", Null, r.data, t.calls)
            /\ UNCHANGED error

----------------------------------------------------------------------------
(* resetPassword and updatePassword *)

PasswordApi == [resetPassword |-> "auth.resetPasswordForEmail", updatePassword |-> "auth.updateUser"]

PasswordOps == DOMAIN PasswordApi

PasswordCallSetsLoading(op) ==
  /\ UNCHANGED <<notified, envCheck>>
  /\ CanStart
  /\ op \in PasswordOps
  /\ error' = Null
  /\ loading' = TRUE
  /\ tasks' = tasks \cup {Task(nextId, op, PasswordApi[op], Null, Null, <<Call(PasswordApi[op], Null)>>)}
  /\ nextId' = nextId + 1
  /\ last' = Ev(op, "call", Null, "none", Null, Null, <<>>)
  /\ UNCHANGED <<user, session, mounted, subscription>>

PasswordCall(op) ==
  /\ UNCHANGED <<notified, envCheck>>
  /\ CanStart
  /\ op \in PasswordOps
  /\ error' = Null
  /\ tasks' = tasks \cup {Task(nextId, op, PasswordApi[op], Null, Null, <<Call(PasswordApi[op], Null)>>)}
  /\ nextId' = nextId + 1
  /\ last' = Ev(op, "call", Null, "none", Null, Null, <<>>)
  /\ UNCHANGED <<user, session, loading, mounted, subscription>>

\* After resetPasswordForEmail or updateUser has answered.
PasswordSettle(t, r) ==
  /\ UNCHANGED <<notified, envCheck>>
  /\ t \in tasks
  /\ t.kind \in PasswordOps
  /\ r \in PlainAuthResponses
  /\ tasks' = tasks \ {t}
  /\ UNCHANGED <<user, session, loading, mounted, subscription, nextId>>
  /\ IF Thrown(r)
       THEN /\ error' = ErrorMessage(r.error)
            /\ last' = Ev(t.kind, "settle", r, "thrown", r.error, Null, t.calls)
       ELSE /\ last' = Ev(t.kind, "settle", r, "resolved", Null, Null, t.calls)
            /\ UNCHANGED error

----------------------------------------------------------------------------

Next ==
  \/ Mount
  \/ Unmount
  \/ \E t \in tasks : \E r \in GetSessionResponses : GetInitialSessionSettle(t, r)
  \/ \E t \in {x \in tasks : x.pc = "getUserById"} : \E r \in GetUserByIdResponses(t.authUser.id) : LoadUserProfileSettle(t, r)
  \/ \E s \in Sessions \cup {Null} : AuthStateChange(s)
  \/ SignUpCall
  \/ \E t \in tasks : \E r \in SignUpResponses : SignUpAuthSettle(t, r)
  \/ \E t \in tasks : \E r \in SideResponses : SignUpInsertSettle(t, r)
  \/ SignInCall
  \/ \E t \in tasks : \E r \in SignInResponses : SignInAuthSettle(t, r)
  \/ \E t \in tasks : \E r \in SideResponses : SignInLastLoginSettle(t, r)
  \/ SignOutCall
  \/ \E t \in tasks : \E r \in PlainAuthResponses : SignOutSettle(t, r)
  \/ UpdateProfileCall
  \/ \E t \in InFlight("updateProfile", "users.update") : \E r \in UpdateResponses(t.authUser.id) : UpdateProfileSettle(t, r)
  \/ \E op \in PasswordOps : PasswordCall(op)
  \/ \E t \in tasks : \E r \in PlainAuthResponses : PasswordSettle(t, r)

Spec == Init /\ [][Next]_vars

\* The banner on its own, over every pair of environment values.
EnvInit ==
  /\ InitHook
  /\ envCheck \in {Env(url, key, "notRendered") : url \in EnvValues, key \in EnvValues}

EnvNext == EnvironmentCheckRender

EnvSpec == EnvInit /\ [][EnvNext]_vars

----------------------------------------------------------------------------
(* Properties *)

Settled(op) == last.op = op /\ last.phase = "settle"

SettledNext(op) == last'.op = op /\ last'.phase = "settle"

\* Error results and exceptions of the auth calls.
AuthFailures == {r \in PlainAuthResponses \cup SignUpResponses \cup SignInResponses : r.how # "ok"}

InsertCalls(calls) == {i \in DOMAIN calls : calls[i].api = "users.insert"}

\* C1 as stated: right after a signOut call has settled, with the backend
\* sign-out succeeded or failed, user and session are both null.
C1_SignOutAlwaysClears ==
  Settled("signOut") => user = Null /\ session = Null

\* C1, amended: the step that settles a signOut clears user and session when
\* the backend sign-out succeeded, and leaves both as they were when the
\* backend returned or raised an error.
C1_SignOutClearsOnSuccess ==
  [][SettledNext("signOut") =>
       IF last'.resp.how = "ok"
         THEN user' = Null /\ session' = Null
         ELSE user' = user /\ session' = session]_vars

C1_Witness ==
  /\ Settled("signOut")
  /\ last.resp.how = "ok"
  /\ user = Null
  /\ session = Null
  /\ \E t \in tasks : t.pc = "getUserById"

\* C2 as stated: right after a signIn call has resolved successfully, user
\* and session are both non-null.
C2_SignInSetsUserAndSession ==
  Settled("signIn") /\ last.outcome = "resolved" => user # Null /\ session # Null

\* C2, amended: user and session are set by the session-change handler, not
\* by signIn.  Handling a notification that carries a session leaves session
\* equal to that session, and the profile load it starts leaves user equal to
\* that session's user (with or without a profile) when it settles.
C2_SessionThenUserByNotification ==
  [][/\ (last'.op = "onAuthStateChange" /\ last'.value # Null /\ mounted
           => session' = last'.value /\ \E t \in tasks' \ tasks : t.pc = "getUserById" /\ t.authUser = last'.value.user)
     /\ (SettledNext("loadUserProfile")
           => user' # Null /\ user'.id = last'.value.id /\ user'.email = last'.value.email)]_vars

C2_Witness ==
  /\ Settled("loadUserProfile")
  /\ last.calls = <<Call("users.select", user.id)>>
  /\ session # Null
  /\ session.user.id = user.id
  /\ nextId = 3

\* C3 as stated: updateProfile called with no active session fails with the
\* 'No user logged in' condition and issues no backend call, and called with
\* an active session it does not fail with that condition.
C3_GuardOnSession ==
  [][last'.op = "updateProfile" /\ (last'.phase = "call" \/ last'.resp = Null) =>
       IF session = Null
         THEN last'.outcome = "thrown" /\ last'.err = NoUserError /\ last'.calls = <<>> /\ tasks' = tasks
         ELSE last'.err # NoUserError]_vars

\* C3, amended: updateProfile called while user is null fails with the
\* 'No user logged in' condition and issues no backend call; called while
\* user is non-null it does not fail with that condition and issues the update.
C3_GuardOnUser ==
  [][last'.op = "updateProfile" /\ (last'.phase = "call" \/ last'.resp = Null) =>
       IF user = Null
         THEN last'.outcome = "thrown" /\ last'.err = NoUserError /\ last'.calls = <<>> /\ tasks' = tasks
         ELSE last'.err # NoUserError /\ \E t \in tasks' \ tasks : t.calls = <<Call("users.update", user.id)>>]_vars

C3_Witness ==
  /\ Settled("updateProfile")
  /\ last.err = NoUserError
  /\ user = Null
  /\ session # Null

\* C4: when the profile lookup of a session's user fails, the settling step
\* leaves user equal to the basic auth user of that session, without a
\* profile, and loading false.
C4_ProfileFailureKeepsAuthUser ==
  Settled("loadUserProfile") /\ last.resp.how = "throws" =>
    /\ user # Null
    /\ user = last.value
    /\ last.value \in {s.user : s \in Sessions}
    /\ ProfileOf(user) = Undefined
    /\ loading = FALSE

C4_Witness ==
  /\ Settled("loadUserProfile")
  /\ last.resp.how = "throws"
  /\ user = BackendUser("u1")
  /\ session # Null
  /\ session.user = user

\* C5: a signUp whose credential creation returned a user has attempted
\* exactly one profile insert, keyed by that user's id, when it settles; and
\* whatever the insert answered, the call resolves with the backend's result
\* and the step leaves the error field alone.
C5_SignUpInsertBestEffort ==
  [][SettledNext("signUp") =>
       /\ (last'.outcome = "resolved" /\ last'.value.user # Null =>
             /\ Cardinality(InsertCalls(last'.calls)) = 1
             /\ \A i \in InsertCalls(last'.calls) : last'.calls[i].key = last'.value.user.id)
       /\ (last'.resp \in SideResponses =>
             /\ last'.outcome = "resolved"
             /\ last'.value \in {t.data : t \in InFlight("signUp", "createUser") \ tasks'}
             /\ last'.value.user # Null
             /\ error' = error)]_vars

C5_Witness ==
  /\ Settled("signUp")
  /\ last.resp \in SideResponses
  /\ last.resp.how = "throws"
  /\ last.outcome = "resolved"
  /\ last.value.user = BackendUser("u2")
  /\ error = Null

\* C6: the step that settles a signIn the backend rejected fails to the
\* caller with the backend's error, sets the error field to that error's
\* message, and leaves user as it was (null from the anonymous state).
C6_SignInRejected ==
  [][SettledNext("signIn") /\ last'.resp \in SignInResponses /\ last'.resp.how # "ok" =>
       /\ last'.outcome = "thrown"
       /\ last'.err = last'.resp.error
       /\ error' = last'.resp.error.message
       /\ user' = user
       /\ (user = Null => user' = Null)]_vars

C6_Witness ==
  /\ Settled("signIn")
  /\ last.outcome = "thrown"
  /\ last.resp.how = "error"
  /\ error = Str("Invalid login credentials")
  /\ user = Null
  /\ session = Null

HookOps == {"signUp", "signIn", "signOut", "updateProfile", "resetPassword", "updatePassword"}

\* C7 as stated: every operation of the hook leaves loading true right after
\* its entry and false right after its exit.
C7_EveryOperationBracketsLoading ==
  /\ (last.op \in HookOps /\ last.phase = "call" => loading = TRUE)
  /\ (last.op \in HookOps /\ last.phase = "settle" => loading = FALSE)

\* C7, amended: signUp, signIn, signOut and an updateProfile that passes the
\* user guard set loading true on entry and false on exit, on success and on
\* failure; resetPassword, updatePassword and an updateProfile rejected by
\* the guard leave loading as it was.
C7_LoadingBrackets ==
  [][/\ (last'.op \in {"signUp", "signIn", "signOut", "updateProfile"} /\ last'.phase = "call" => loading' = TRUE)
     /\ (last'.op \in {"signUp", "signIn", "signOut"} /\ last'.phase = "settle" => loading' = FALSE)
     /\ (SettledNext("updateProfile") =>
           IF last'.calls = <<>> THEN loading' = loading ELSE loading' = FALSE)
     /\ (last'.op \in PasswordOps => loading' = loading)]_vars

C7_Witness ==
  /\ last.op = "signIn"
  /\ last.phase = "call"
  /\ loading = TRUE
  /\ tasks = {Task(1, "signIn", "auth.signInWithPassword", Null, Null, <<Call("auth.signInWithPassword", Null)>>)}

\* C8: once the initial session fetch has failed on a mounted hook, with no
\* notification and no operation call before or after, the hook is anonymous
\* and no longer initializing: error set, user and session null, loading false.
C8_InitialFetchFailureEndsAnonymous ==
  Settled("getInitialSession") /\ last.resp.how # "ok" /\ mounted /\ nextId = 1 /\ tasks = {} =>
    /\ error # Null
    /\ user = Null
    /\ session = Null
    /\ loading = FALSE

\* C9: resetPassword and updatePassword leave user, session and loading as
\* they were in each of their steps, and have made exactly one backend call,
\* the one they delegate to, when they settle.
C9_PasswordOpsFrame ==
  [][last'.op \in PasswordOps =>
       /\ user' = user
       /\ session' = session
       /\ loading' = loading
       /\ (last'.phase = "settle" => last'.calls = <<Call(PasswordApi[last'.op], Null)>>)]_vars

C9_Witness ==
  /\ last.op \in PasswordOps
  /\ last.phase = "settle"
  /\ last.outcome = "thrown"
  /\ user # Null
  /\ session # Null
  /\ loading = TRUE

\* C10: whenever the backend answers signUp, signIn, signOut, resetPassword
\* or updatePassword with an auth error, returned or raised, the call fails
\* to its caller with that error and the error field holds its message.
C10_AuthErrorsSurfaced ==
  [][/\ last'.op \in {"signUp", "signIn", "signOut", "resetPassword", "updatePassword"}
     /\ last'.phase \in {"step", "settle"}
     /\ last'.resp \in AuthFailures
     => /\ last'.phase = "settle"
        /\ last'.outcome = "thrown"
        /\ last'.err = last'.resp.error
        /\ error' = last'.resp.error.message]_vars

C10_Witness ==
  /\ last.op \in {"signUp", "signOut", "resetPassword", "updatePassword"}
  /\ last.phase = "settle"
  /\ last.resp \in AuthFailures
  /\ last.resp.how = "error"
  /\ last.outcome = "thrown"
  /\ error = Str("Auth service unavailable")

\* C11: the subscription is acquired once, by the mount that sets the
\* mounted flag, and released once, by the cleanup that clears it, and is
\* never acquired again; a session-change notification that reaches the
\* callback after the cleanup changes none of session, user, loading, error.
C11_SubscriptionOnceAndQuietAfterUnmount ==
  [][/\ (subscription' # subscription =>
           \/ subscription = "none" /\ subscription' = "active" /\ mounted' /\ last'.op = "useEffect" /\ last'.phase = "call"
           \/ subscription = "active" /\ subscription' = "unsubscribed" /\ ~mounted' /\ last'.op = "useEffect" /\ last'.phase = "cleanup")
     /\ (last'.op = "useEffect" => subscription' # subscription /\ mounted' # mounted)
     /\ (last'.op = "onAuthStateChange" /\ subscription = "unsubscribed" =>
           user' = user /\ session' = session /\ loading' = loading /\ error' = error /\ tasks' = tasks)]_vars

C11_Witness ==
  /\ last.op = "onAuthStateChange"
  /\ subscription = "unsubscribed"
  /\ last.value \in Sessions
  /\ session = Null
  /\ user = Null
  /\ loading = TRUE

NonEmpty(v) == v # Undefined /\ v # Str("")

\* C12: the banner renders nothing exactly when the URL and the key are both
\* present and non-empty, the URL is not the URL placeholder and the key is
\* not the key placeholder; in every other case, the placeholder pair and
\* empty or missing values included, the banner is rendered.
C12_ConfiguredIffRealCredentials ==
  envCheck.rendered # "notRendered" =>
    /\ envCheck.rendered \in {"null", "banner"}
    /\ (envCheck.rendered = "null" <=>
          (/\ NonEmpty(envCheck.supabaseUrl)
           /\ NonEmpty(envCheck.supabaseAnonKey)
           /\ envCheck.supabaseUrl # UrlPlaceholder
           /\ envCheck.supabaseAnonKey # KeyPlaceholder))
    /\ (envCheck.supabaseUrl = UrlPlaceholder /\ envCheck.supabaseAnonKey = KeyPlaceholder => envCheck.rendered = "banner")

C12_Witness ==
  /\ envCheck.rendered = "banner"
  /\ envCheck.supabaseUrl = Str("https://abc.supabase.co")
  /\ envCheck.supabaseAnonKey = KeyPlaceholder

\* C13 as stated: loading is true in every state in which some operation,
\* fetch or profile load is in flight.
C13_LoadingWhileAnyInFlight ==
  tasks # {} => loading = TRUE

\* C13, amended: the initial fetch starts with loading true, a profile load,
\* signUp, signIn, signOut and a guard-passing updateProfile set loading true
\* when they start, and loading goes from true to false only in a step in
\* which some operation or handler finishes; so loading is true from the
\* start of such an operation until the next operation or handler finishes,
\* be it another one.  resetPassword and updatePassword do not set it.
C13_LoadingUntilNextSettle ==
  [][/\ (last'.op = "useEffect" /\ last'.phase = "call" => loading')
     /\ (last'.phase = "call" /\ last'.op \in {"onAuthStateChange", "signUp", "signIn", "signOut", "updateProfile"} => loading')
     /\ (last'.phase = "step" => IF last'.op = "getInitialSession" THEN loading' ELSE loading' = loading)
     /\ (loading /\ ~loading' => last'.phase = "settle")
     /\ (last'.op \in PasswordOps => loading' = loading)]_vars

C13_Witness ==
  /\ last.op = "onAuthStateChange"
  /\ last.phase = "call"
  /\ loading = TRUE
  /\ Cardinality(tasks) = 2
  /\ \E t \in tasks : t.kind = "resetPassword"

\* A fetch or profile load that started before the most recent notification
\* takes its next step.
StaleStep == \E t \in tasks \ tasks' : t.kind \in {"getInitialSession", "onAuthStateChange"} /\ notified.count > 0 /\ t.id < notified.id

\* Only notifications have happened since mount, and every fetch and
\* profile load has settled.
QuietAfterNotification == notified.count > 0 /\ notified.count = nextId - 1 /\ tasks = {}

\* C14: a fetch or profile load started before the most recent notification
\* writes neither user nor session; and once only notifications have run and
\* everything has settled, session is the session of the most recent
\* notification and user is null or that session's user accordingly.
C14_NotificationSupersedes ==
  [][/\ (StaleStep => user' = user /\ session' = session)
     /\ (QuietAfterNotification' =>
           /\ session' = notified'.session
           /\ IF notified'.session = Null
                THEN user' = Null
                ELSE user' # Null /\ user'.id = notified'.session.user.id)]_vars

\* C15: when the hook is unmounted before supabase.auth.getSession()
\* answers, handling the answer writes nothing to session, user, loading or
\* error.
C15_NoWriteAfterUnmount ==
  [][last'.op = "getInitialSession" /\ ~mounted =>
       session' = session /\ user' = user /\ loading' = loading /\ error' = error]_vars

C17_LastLoginFailureSwallowed ==
  [][SettledNext("signIn") /\ last'.resp \in SideResponses /\ last'.resp.how # "ok" =>
       /\ last'.outcome = "resolved"
       /\ last'.err = Null
       /\ last'.value \in {t.data : t \in InFlight("signIn", "users.update") \ tasks'}
       /\ last'.value \in {r.data : r \in {x \in SignInResponses : x.how = "ok"}}
       /\ error' = error]_vars

C17_Witness ==
  /\ Settled("signIn")
  /\ last.resp \in SideResponses
  /\ last.resp.how = "throws"
  /\ last.outcome = "resolved"
  /\ last.value.user = BackendUser("u1")
  /\ error = Null

\* C18: whenever no operation, fetch or profile load is in flight, a
\* non-null user comes with a non-null session of the same user id.
C18_UserImpliesMatchingSession ==
  tasks = {} /\ user # Null => session # Null /\ user.id = session.user.id

\* C19: no step of signIn or signUp writes user or session; a step that
\* changes either belongs to the initial fetch, the session-change handler,
\* a profile load, a successful signOut or a successful updateProfile.
C19_OnlySessionPathsWriteUser ==
  [][/\ (last'.op \in {"signIn", "signUp"} => user' = user /\ session' = session)
     /\ (user' # user \/ session' # session =>
           \/ last'.op \in {"getInitialSession", "onAuthStateChange", "loadUserProfile"}
           \/ SettledNext("signOut") /\ last'.outcome = "resolved"
           \/ SettledNext("updateProfile") /\ last'.outcome = "resolved")]_vars

C19_Witness ==
  /\ Settled("signIn")
  /\ last.outcome = "resolved"
  /\ last.value.session \in Sessions
  /\ user = Null
  /\ session = Null
  /\ tasks = {}

====
